---- MODULE Spec2Model ----
(***************************************************************************)
(* UPC merge tool: the record reconciliation and attribute extraction      *)
(* pipeline of the five Streamlit scripts under src/.                      *)
(*                                                                         *)
(* Text is a sequence of one-character strings, so that the regular        *)
(* expressions and the padding of the code are computed character by       *)
(* character.  A spreadsheet cell is a text or NaN (an empty cell); a      *)
(* numeric cell is held as the text pandas' astype(str) gives for it       *)
(* (the float 12345678905.0 is the text "12345678905.0").                  *)
(***************************************************************************)
EXTENDS Integers, Sequences, FiniteSets, TLC

VARIABLES
    nst,            \* the barcode normalizers applied to one cell
    dst,            \* extract_size_components applied to one description
    cst,            \* detect_column applied to one column list and alias list
    hst,            \* detect_header_row applied to one raw sheet
    variant,        \* which of the five scripts runs
    pc,             \* where the run stands
    upc_file,       \* the uploaded source workbook: its header and its sheets
    partner_file,   \* the uploaded catalog sheet: its columns and rows
    upc_df,         \* the source frame: columns, rows, STATUS
    partner_df,     \* the catalog frame: columns, rows
    roles,          \* upc_col, desc_col, brand_col, dept_col, ...
    new_upcs_df,    \* the New source records with their derived fields
    merged_df,      \* the output frame
    download        \* the output of the run before this one, as the user saved it

pipe == <<variant, pc, upc_file, partner_file, upc_df, partner_df, roles, new_upcs_df,
          merged_df, download>>

vars == <<nst, dst, cst, hst, pipe>>

(***************************************************************************)
(* Bounds of the model.                                                    *)
(***************************************************************************)
MaxTail == 3

MaxTok == 3

MaxSrc == 2

MaxCat == 2

(***************************************************************************)
(* Values.                                                                 *)
(***************************************************************************)
\* An empty cell.  It is a sequence that is no text, so that it compares with texts.
NaN == <<"NaN">>

\* Python's None, held like NaN.
None == <<"None">>

Digits == {"0", "1", "2", "3", "4", "5", "6", "7", "8", "9"}

Variants == {"auto", "multi", "dynamic", "flex", "manual"}

ZfillWidth == 12

RECURSIVE SeqsUpTo(_, _)
SeqsUpTo(S, n) ==
    IF n = 0 THEN {<<>>}
    ELSE LET shorter == SeqsUpTo(S, n - 1)
         IN  shorter \cup {Append(s, c) : s \in {t \in shorter : Len(t) = n - 1}, c \in S}

(***************************************************************************)
(* Barcode normalizer.                                                     *)
(***************************************************************************)
\* Series.astype(str): an empty cell becomes the text "nan".
AsStr(cell) == IF cell = NaN THEN <<"n", "a", "n">> ELSE cell

EndsWithDotZero(s) ==
    /\ Len(s) >= 2
    /\ s[Len(s) - 1] = "."
    /\ s[Len(s)] = "0"

\* The pattern with its dot left unescaped, r'.0$': any character before the last "0".
StripAnyCharZero(s) ==
    IF Len(s) >= 2 /\ s[Len(s)] = "0" THEN SubSeq(s, 1, Len(s) - 2) ELSE s

\* .str.replace(r'\.0$', '', regex=True)
StripDotZero(s) == IF EndsWithDotZero(s) THEN SubSeq(s, 1, Len(s) - 2) ELSE s

\* re.search scans the start positions from the left: the first one holding a digit.
RECURSIVE FirstDigitFrom(_, _)
FirstDigitFrom(s, i) ==
    IF i > Len(s) THEN 0
    ELSE IF s[i] \in Digits THEN i
    ELSE FirstDigitFrom(s, i + 1)

\* \d+ is greedy: the run goes on while the next character is a digit.
RECURSIVE DigitRunEnd(_, _)
DigitRunEnd(s, i) ==
    IF i < Len(s) /\ s[i + 1] \in Digits THEN DigitRunEnd(s, i + 1) ELSE i

\* .str.extract(r'(\d+)', expand=False): group 1 of the first match, NaN with no match.
ExtractDigits(s) ==
    LET i == FirstDigitFrom(s, 1)
    IN  IF i = 0 THEN NaN ELSE SubSeq(s, i, DigitRunEnd(s, i))

\* .fillna(value)
Fillna(x, value) == IF x = NaN THEN value ELSE x

\* .str.zfill(width): "0" on the left up to width, longer texts as they are.
Zfill(s, width) ==
    IF Len(s) >= width THEN s
    ELSE [k \in 1..(width - Len(s)) |-> "0"] \o s

\* Every digit of the text kept, as re.sub(r'\D', '', text) would, in place of the first run.
CleanSourceAllDigits(v, cell) ==
    IF v = "auto"
    THEN Zfill(AsStr(cell), ZfillWidth)
    ELSE Zfill(SelectSeq(StripDotZero(AsStr(cell)), LAMBDA c : c \in Digits), ZfillWidth)

\* The source barcode column: upc_df[upc_col] = ...
CleanSource(v, cell) ==
    IF v = "auto"
    THEN Zfill(AsStr(cell), ZfillWidth)
    ELSE Zfill(Fillna(ExtractDigits(StripDotZero(AsStr(cell))), <<>>), ZfillWidth)

\* The catalog column only padded, as the auto-mapping script does it, in every variant.
CleanCatalogPadOnly(v, cell) == Zfill(AsStr(cell), ZfillWidth)

\* The catalog barcode column: partner_df['barcode'] = ...
CleanCatalog(v, cell) ==
    IF v = "auto"
    THEN Zfill(AsStr(cell), ZfillWidth)
    ELSE Zfill(Fillna(ExtractDigits(AsStr(cell)), <<>>), ZfillWidth)

(***************************************************************************)
(* Description parser: extract_size_components.                            *)
(***************************************************************************)
\* str.lower() and str.upper() on the letters the texts of the model hold.
LowerOf(c) ==
    CASE c = "O" -> "o" [] c = "Z" -> "z" [] c = "C" -> "c" [] c = "T" -> "t"
      [] c = "F" -> "f" [] c = "L" -> "l" [] c = "M" -> "m" [] c = "G" -> "g"
      [] c = "A" -> "a" [] c = "N" -> "n" [] c = "W" -> "w" [] c = "B" -> "b"
      [] c = "U" -> "u" [] c = "P" -> "p" [] c = "I" -> "i"
      [] OTHER -> c

UpperOf(c) ==
    CASE c = "o" -> "O" [] c = "z" -> "Z" [] c = "c" -> "C" [] c = "t" -> "T"
      [] c = "f" -> "F" [] c = "l" -> "L" [] c = "m" -> "M" [] c = "g" -> "G"
      [] c = "a" -> "A" [] c = "n" -> "N" [] c = "w" -> "W" [] c = "b" -> "B"
      [] c = "u" -> "U" [] c = "p" -> "P" [] c = "i" -> "I"
      [] OTHER -> c

Lower(s) == [k \in 1..Len(s) |-> LowerOf(s[k])]

Upper(s) == [k \in 1..Len(s) |-> UpperOf(s[k])]

\* \s of the patterns.
Whitespace == {" ", "\t", "\n"}

\* The alternation (oz|fl oz|l|ml|gallon|gal), in the order the engine tries it.
SizeUnits ==
    << <<"o", "z">>, <<"f", "l", " ", "o", "z">>, <<"l">>, <<"m", "l">>,
       <<"g", "a", "l", "l", "o", "n">>, <<"g", "a", "l">> >>

CountUnit == <<"c", "t">>

\* The text u stands in s from position p on.
HasAt(s, p, u) ==
    /\ p + Len(u) - 1 <= Len(s)
    /\ SubSeq(s, p, p + Len(u) - 1) = u

\* The ends e of the number (\d+(\.\d+)?) that starts at i with integer part i..d.
NumberEnds(s, d) ==
    {d} \cup (IF d + 2 <= Len(s) /\ s[d + 1] = "." /\ s[d + 2] \in Digits
              THEN (d + 2)..DigitRunEnd(s, d + 2)
              ELSE {})

\* The positions of s that hold a digit: where a match of \d+ can start.
DigitStarts(s) == {k \in 1..Len(s) : s[k] \in Digits}

\* \s? after position e: not taken (0), or taken (1) when a whitespace character follows.
OptionalSpace(s, e) ==
    {0} \cup (IF e + 1 <= Len(s) /\ s[e + 1] \in Whitespace THEN {1} ELSE {})

\* Every way the size pattern matches s: start i, integer part i..d, number i..e,
\* w whitespace characters, unit number u of the alternation.
SizeMatches(s) ==
    UNION {UNION {UNION {UNION {
        {[i |-> i, d |-> d, e |-> e, w |-> w, u |-> u] :
            u \in {x \in 1..Len(SizeUnits) : HasAt(s, e + 1 + w, SizeUnits[x])}} :
        w \in OptionalSpace(s, e)} :
        e \in NumberEnds(s, d)} :
        d \in i..DigitRunEnd(s, i)} :
        i \in DigitStarts(s)}

\* The order re.search tries them in: leftmost start, then the greedy choices
\* (longest \d+, the optional group taken and longest, \s? taken), then the
\* alternation from left to right.
TriedBefore(m, n) ==
    \/ m.i < n.i
    \/ (m.i = n.i /\ m.d > n.d)
    \/ (m.i = n.i /\ m.d = n.d /\ m.e > n.e)
    \/ (m.i = n.i /\ m.d = n.d /\ m.e = n.e /\ m.w > n.w)
    \/ (m.i = n.i /\ m.d = n.d /\ m.e = n.e /\ m.w = n.w /\ m.u < n.u)

\* The last match of the pattern in place of the first (the start furthest right).
SizeSearchLast(s) ==
    LET M == SizeMatches(s)
    IN  IF M = {} THEN <<>>
        ELSE <<CHOOSE m \in M : \A n \in M \ {m} :
                  m.i > n.i \/ (m.i = n.i /\ TriedBefore(m, n))>>

\* re.search(r'(\d+(\.\d+)?)\s?(oz|fl oz|l|ml|gallon|gal)', desc)
SizeSearch(s) ==
    LET M == SizeMatches(s)
    IN  IF M = {} THEN <<>>
        ELSE <<CHOOSE m \in M : \A n \in M \ {m} : TriedBefore(m, n)>>

CountMatches(s) ==
    UNION {UNION {
        {[i |-> i, d |-> d, w |-> w] :
            w \in {x \in OptionalSpace(s, d) : HasAt(s, d + 1 + x, CountUnit)}} :
        d \in i..DigitRunEnd(s, i)} :
        i \in DigitStarts(s)}

CountTriedBefore(m, n) ==
    \/ m.i < n.i
    \/ (m.i = n.i /\ m.d > n.d)
    \/ (m.i = n.i /\ m.d = n.d /\ m.w > n.w)

\* re.search(r'(\d+)\s?ct', desc)
CountSearch(s) ==
    LET M == CountMatches(s)
    IN  IF M = {} THEN <<>>
        ELSE <<CHOOSE m \in M : \A n \in M \ {m} : CountTriedBefore(m, n)>>

NoFields ==
    [sizeValue |-> None, sizeMeasure |-> None, itemCountValue |-> None,
     itemCountMeasure |-> None]

\* The if/elif chain over the upper-cased unit.
CanonMeasure(size_measure) ==
    IF size_measure \in {<<"F", "L", " ", "O", "Z">>, <<"O", "Z">>} THEN <<"O", "Z">>
    ELSE IF size_measure \in {<<"G", "A", "L">>, <<"G", "A", "L", "L", "O", "N">>}
         THEN <<"G", "A", "L", "L", "O", "N">>
    ELSE IF size_measure = <<"L">> THEN <<"L">>
    ELSE IF size_measure = <<"M", "L">> THEN <<"M", "L">>
    ELSE size_measure

extract_size_components(desc0) ==
    LET desc == Lower(desc0)
        size_match == SizeSearch(desc)
        count_match == CountSearch(desc)
        size_value == IF size_match # <<>>
                      THEN SubSeq(desc, size_match[1].i, size_match[1].e) ELSE None
        size_measure == IF size_match # <<>>
                        THEN Upper(SizeUnits[size_match[1].u]) ELSE None
        count_value == IF count_match # <<>>
                       THEN SubSeq(desc, count_match[1].i, count_match[1].d) ELSE None
        count_measure == IF count_match # <<>> THEN <<"C", "T">> ELSE None
    IN  [sizeValue |-> size_value,
         sizeMeasure |-> IF size_measure # None THEN CanonMeasure(size_measure) ELSE None,
         itemCountValue |-> count_value,
         itemCountMeasure |-> count_measure]

(***************************************************************************)
(* Column mapping.                                                         *)
(***************************************************************************)
\* Python's None where a column name is expected.
NoColumn == "<None>"

Range(f) == {f[k] : k \in DOMAIN f}

Min(S) == CHOOSE x \in S : \A y \in S : x <= y

Max(S) == CHOOSE x \in S : \A y \in S : x >= y

\* col.lower().strip() on the header cells of the model.
LowerStrip(col) ==
    CASE col = "UPC" -> "upc"
      [] col = "Description" -> "description"
      [] col = "Brand" -> "brand"
      [] col = " Title" -> "title"
      [] col = "Barcode " -> "barcode"
      [] OTHER -> col

UPC_ALIASES == <<"barcode", "upc">>

DESC_ALIASES ==
    <<"description", "name", "product / fido id", "product name", "product description">>

BRAND_ALIASES == <<"brand">>

CAT1_ALIASES == <<"department", "category 1", "category_1">>

CAT2_ALIASES == <<"category", "category 2", "category_2">>

CAT3_ALIASES == <<"segment", "category 3", "category_3">>

\* normalized_cols is a dict built in column order: of two columns with the same
\* normalized name the later one stays.
detect_column(columns, aliases) ==
    LET at(a) == {k \in 1..Len(columns) : LowerStrip(columns[k]) = a}
        found == {j \in 1..Len(aliases) : at(aliases[j]) # {}}
    IN  IF found = {} THEN NoColumn
        ELSE columns[Max(at(aliases[Min(found)]))]

\* 'a' if 'a' in columns else ('b' if 'b' in columns else ... None)
FirstPresent(columns, names) ==
    LET found == {j \in 1..Len(names) : names[j] \in Range(columns)}
    IN  IF found = {} THEN NoColumn ELSE names[Min(found)]

\* The scripts that rename the columns to their lowercased, stripped names.
Renaming == {"dynamic", "flex", "manual"}

\* The scripts with a selectbox for the description, shown when neither 'title' nor
\* 'description' is a column; the script with one for the barcode.
AsksDescription(v, columns) ==
    v \in {"dynamic", "manual"} /\ FirstPresent(columns, <<"title", "description">>) = NoColumn

AsksBarcode(v, columns) ==
    v = "dynamic" /\ FirstPresent(columns, <<"gtin", "upc", "barcode">>) = NoColumn

\* st.selectbox(..., options=columns): one of the columns; None when it is not shown
\* or has no option.
SelectboxValues(shown, columns) ==
    IF shown /\ columns # <<>> THEN Range(columns) ELSE {NoColumn}

\* The role map of a variant over the columns; pick_desc and pick_upc are what the
\* user has selected in the two selectboxes, used only where the script shows them.
ResolveRoles(v, columns, pick_desc, pick_upc) ==
    IF v \in {"auto", "multi"}
    THEN [upc_col |-> detect_column(columns, UPC_ALIASES),
          desc_col |-> detect_column(columns, DESC_ALIASES),
          brand_col |-> detect_column(columns, BRAND_ALIASES),
          dept_col |-> detect_column(columns, CAT1_ALIASES),
          cat2_col |-> detect_column(columns, CAT2_ALIASES),
          cat3_col |-> detect_column(columns, CAT3_ALIASES),
          product_type_col |-> NoColumn]
    ELSE LET desc0 == IF v = "flex"
                      THEN FirstPresent(columns, <<"description", "title">>)
                      ELSE FirstPresent(columns, <<"title", "description">>)
             upc0 == IF v = "dynamic"
                     THEN FirstPresent(columns, <<"gtin", "upc", "barcode">>)
                     ELSE FirstPresent(columns, <<"gtin", "barcode">>)
         IN  [upc_col |-> IF upc0 = NoColumn /\ v = "dynamic" THEN pick_upc ELSE upc0,
              desc_col |-> IF desc0 = NoColumn /\ v \in {"dynamic", "manual"}
                           THEN pick_desc ELSE desc0,
              brand_col |-> FirstPresent(columns, <<"brand">>),
              dept_col |-> NoColumn,
              cat2_col |-> NoColumn,
              cat3_col |-> NoColumn,
              product_type_col |-> FirstPresent(columns, <<"product_type">>)]

\* The gate on the barcode role alone.
RequiredMissingBarcodeOnly(r) == r.upc_col = NoColumn

\* if not upc_col or not desc_col: st.error(...)
RequiredMissing(r) == r.upc_col = NoColumn \/ r.desc_col = NoColumn

(***************************************************************************)
(* Set reconciler.                                                         *)
(***************************************************************************)
\* upc_df[upc_col] = <cleaned column>
CleanSourceColumn(v, rows, upc_col) ==
    [k \in 1..Len(rows) |-> [rows[k] EXCEPT ![upc_col] = CleanSource(v, @)]]

\* partner_df['barcode'] = <cleaned column>: the catalog frame itself is rewritten.
CleanCatalogColumn(v, rows) ==
    [k \in 1..Len(rows) |-> [rows[k] EXCEPT !["barcode"] = CleanCatalog(v, @)]]

\* The set built without the last catalog row.
ExistingBarcodesButLast(rows) == {rows[k]["barcode"] : k \in 1..(Len(rows) - 1)}

\* existing_barcodes = set(partner_df['barcode'])
ExistingBarcodes(rows) == {rows[k]["barcode"] : k \in 1..Len(rows)}

\* lambda x: 'Existing' if x in existing_barcodes else 'New'
Label(x, existing_barcodes) == IF x \in existing_barcodes THEN "Existing" ELSE "New"

\* The positions of the New records, the last one first.
RECURSIVE NewPositionsBackward(_, _)
NewPositionsBackward(status, k) ==
    IF k > Len(status) THEN <<>>
    ELSE NewPositionsBackward(status, k + 1) \o (IF status[k] = "New" THEN <<k>> ELSE <<>>)

\* upc_df[upc_df['STATUS'] == 'New']: the positions kept, in frame order.
RECURSIVE NewPositions(_, _)
NewPositions(status, k) ==
    IF k > Len(status) THEN <<>>
    ELSE (IF status[k] = "New" THEN <<k>> ELSE <<>>) \o NewPositions(status, k + 1)

(***************************************************************************)
(* Category splitter.                                                      *)
(***************************************************************************)
NA == <<"N", "/", "A">>

\* str.split('>'): the segments between the delimiters; the empty text gives one
\* empty segment.
RECURSIVE Split(_, _)
Split(s, sep) ==
    LET at == {k \in 1..Len(s) : s[k] = sep}
    IN  IF at = {} THEN <<s>>
        ELSE <<SubSeq(s, 1, Min(at) - 1)>> \o Split(SubSeq(s, Min(at) + 1, Len(s)), sep)

\* str.strip()
Strip(s) ==
    LET ink == {k \in 1..Len(s) : s[k] \notin Whitespace}
    IN  IF ink = {} THEN <<>> ELSE SubSeq(s, Min(ink), Max(ink))

\* .fillna('').str.split('>', expand=True): one list of segments per New record; the
\* expanded frame has as many columns as the longest list, None where a list is shorter.
CatSplit(cells) == [k \in 1..Len(cells) |-> Split(Fillna(cells[k], <<>>), ">")]

CatSplitWidth(cat_split) ==
    IF cat_split = <<>> THEN 0 ELSE Max({Len(cat_split[k]) : k \in 1..Len(cat_split)})

\* The level without its .fillna("N/A"): a record with fewer segments than the widest
\* one of the batch keeps an empty level.
CategoryLevelNoFill(cat_split, k, n) ==
    IF n < CatSplitWidth(cat_split)
    THEN (IF n < Len(cat_split[k]) THEN Strip(cat_split[k][n + 1]) ELSE <<>>)
    ELSE NA

\* cat_split[n].str.strip().fillna("N/A") if n in cat_split else "N/A", for record k.
CategoryLevel(cat_split, k, n) ==
    IF n < CatSplitWidth(cat_split)
    THEN (IF n < Len(cat_split[k]) THEN Strip(cat_split[k][n + 1]) ELSE NA)
    ELSE NA

(***************************************************************************)
(* Row projector.                                                          *)
(***************************************************************************)
\* .str.upper() on a column: an empty cell stays empty.
UpperCell(cell) == IF cell = NaN THEN NaN ELSE Upper(cell)

\* new_upcs_df[col].str.upper() if col else "N/A"
UpperOrNA(row, col) == IF col # NoColumn THEN UpperCell(row[col]) ELSE NA

BaseFields ==
    {"barcode", "bh2Brand", "name", "description", "ch1Department", "ch2Category",
     "ch3Segment", "partnerProduct", "awardPoints"}

SizeFields == {"itemCountValue", "itemCountMeasure", "sizeValue", "sizeMeasure"}

\* The keys of the dict given to pd.DataFrame.
ConstructedFields(v) == IF v = "auto" THEN BaseFields ELSE BaseFields \cup SizeFields

\* The derived fields of the New records: parsed size and count, category levels.
DeriveNew(v, r, rows, positions) ==
    LET cat_split ==
            IF r.product_type_col # NoColumn
            THEN CatSplit([k \in 1..Len(positions) |-> rows[positions[k]][r.product_type_col]])
            ELSE <<>>
        level(k, n) ==
            IF r.product_type_col # NoColumn THEN CategoryLevel(cat_split, k, n) ELSE NA
    IN  [k \in 1..Len(positions) |->
            LET row == rows[positions[k]]
            IN  [index |-> positions[k],
                 row |-> row,
                 parsed |-> IF v = "auto" THEN NoFields
                            ELSE extract_size_components(Fillna(row[r.desc_col], <<>>)),
                 ch1Department |-> IF v \in Renaming THEN level(k, 0)
                                   ELSE UpperOrNA(row, r.dept_col),
                 ch2Category |-> IF v \in Renaming THEN level(k, 1)
                                 ELSE UpperOrNA(row, r.cat2_col),
                 ch3Segment |-> IF v \in Renaming THEN level(k, 2)
                                ELSE UpperOrNA(row, r.cat3_col)]]

\* One row of new_rows = pd.DataFrame({...}).
ConstructRow(v, r, n) ==
    [f \in ConstructedFields(v) |->
        CASE f = "barcode" -> n.row[r.upc_col]
          [] f = "bh2Brand" -> UpperOrNA(n.row, r.brand_col)
          [] f = "name" -> n.row[r.desc_col]
          [] f = "description" -> n.row[r.desc_col]
          [] f = "ch1Department" -> n.ch1Department
          [] f = "ch2Category" -> n.ch2Category
          [] f = "ch3Segment" -> n.ch3Segment
          [] f = "partnerProduct" -> <<"Y">>
          [] f = "awardPoints" -> <<"N">>
          [] OTHER -> n.parsed[f]]

\* The missing columns added, the row not cut down to the catalog's columns.
ProjectKeepAll(row, columns) ==
    [c \in Range(columns) \cup DOMAIN row |-> IF c \in DOMAIN row THEN row[c] ELSE None]

\* for col in partner_df.columns: if col not in new_rows.columns: new_rows[col] = None
\* new_rows = new_rows[partner_df.columns]
Project(row, columns) ==
    [c \in Range(columns) |-> IF c \in DOMAIN row THEN row[c] ELSE None]

\* Equal new rows appended once, as a drop_duplicates() on new_rows would.
RECURSIVE Distinct(_)
Distinct(rows) ==
    IF rows = <<>> THEN <<>>
    ELSE LET front == SubSeq(rows, 1, Len(rows) - 1)
             last == rows[Len(rows)]
         IN  IF last \in Range(front) THEN Distinct(front)
             ELSE Append(Distinct(front), last)

ConcatDistinct(df, new_rows) ==
    [columns |-> df.columns, rows |-> df.rows \o Distinct(new_rows)]

\* pd.concat([partner_df, new_rows], ignore_index=True)
Concat(df, new_rows) == [columns |-> df.columns, rows |-> df.rows \o new_rows]

(***************************************************************************)
(* The run of a script: the files are uploaded, the script maps the        *)
(* columns and stops at the gate or waits for the button; the button runs  *)
(* the merge.                                                              *)
(***************************************************************************)
Eleven == <<"1", "2", "3", "4", "5", "6", "7", "8", "9", "0", "5">>

Thirteen == <<"4", "0", "0", "6", "3", "8", "1", "3", "3", "3", "9", "3", "1">>

Twelve == <<"0">> \o Eleven

\* The parser at rest, for the specifications that do not run it.
SizeIdle == [desc |-> <<>>, done |-> TRUE, parsed |-> NoFields]

\* The normalizers at rest, for the specifications that do not run them.
NormIdle ==
    [variant |-> "multi", cell |-> NaN, pass |-> 3, prev |-> NaN, src |-> NaN, cat |-> NaN]

\* detect_column at rest, for the specifications that do not run it.
ColumnIdle == [columns |-> <<>>, aliases |-> <<>>, done |-> TRUE, found |-> NoColumn]

\* detect_header_row at rest, for the specifications that do not run it.
HeaderIdle == [df_raw |-> <<>>, done |-> TRUE, header_row |-> 0]

SourceHeaders ==
    { <<"UPC", "Description", "Brand">>,
      <<"gtin", " Title", "product_type", "brand">>,
      <<"barcode", "name", "department">>,
      <<"Barcode ", "description", "title", "product_type">> }

Beverages ==
    <<"B", "e", "v", "e", "r", "a", "g", "e", "s", " ", ">", " ", "S", "o", "d", "a", " ",
      ">", " ", "C", "o", "l", "a">>

Snacks == <<"S", "n", "a", "c", "k", "s">>

\* The source records of the model: barcode cell, description cell, product type cell.
SourceRecords ==
    { [bc |-> Eleven \o <<".", "0">>, desc |-> <<"1", "2", " ", "o", "z">>,
       ptype |-> Beverages],
      [bc |-> <<"A", "B", "C">>, desc |-> NaN, ptype |-> Snacks],
      [bc |-> <<"7">>, desc |-> <<"3", " ", "c", "t">>, ptype |-> NaN],
      [bc |-> Twelve, desc |-> <<"x">>,
       ptype |-> <<" ", "A", " ", ">", "x", ">", ">", "D">>] }

\* The cell a source record holds under a header cell.
SourceCell(col, rec) ==
    LET c == LowerStrip(col)
    IN  CASE c \in {"upc", "gtin", "barcode"} -> rec.bc
          [] c \in {"description", "title", "name"} -> rec.desc
          [] c = "product_type" -> rec.ptype
          [] c = "brand" -> <<"A", "c">>
          [] OTHER -> <<"d", "y">>

SourceRow(header, rec) == [c \in Range(header) |-> SourceCell(c, rec)]

\* The records in one sheet, or the first record in a sheet of its own.
SheetsOf(rows) ==
    {<<rows>>} \cup
    (IF Len(rows) >= 2 THEN {<<SubSeq(rows, 1, 1), SubSeq(rows, 2, Len(rows))>>} ELSE {})

UpcFiles ==
    UNION {UNION {{[header |-> h, sheets |-> sh] :
                      sh \in SheetsOf([k \in 1..Len(recs) |-> SourceRow(h, recs[k])])} :
                  recs \in SeqsUpTo(SourceRecords, MaxSrc)} :
           h \in SourceHeaders}

CatalogHeaders ==
    { <<"barcode", "name">>,
      <<"name", "barcode", "ch1Department", "sizeValue", "legacy">>,
      <<"sku", "name">> }

CatalogBarcodes == {Twelve, <<"7">>, NaN}

CatalogRow(header, bc) ==
    [c \in Range(header) |-> IF c = "barcode" THEN bc ELSE <<"o", "l", "d">>]

PartnerFiles ==
    UNION {{[columns |-> h, rows |-> [k \in 1..Len(bcs) |-> CatalogRow(h, bcs[k])]] :
               bcs \in SeqsUpTo(CatalogBarcodes, MaxCat)} :
           h \in CatalogHeaders}

NoFrame == [columns |-> <<>>, rows |-> <<>>]

NoSourceFrame == [columns |-> <<>>, rows |-> <<>>, STATUS |-> <<>>]

NoRoles ==
    [upc_col |-> NoColumn, desc_col |-> NoColumn, brand_col |-> NoColumn,
     dept_col |-> NoColumn, cat2_col |-> NoColumn, cat3_col |-> NoColumn,
     product_type_col |-> NoColumn]

RECURSIVE Flatten(_)
Flatten(ts) == IF ts = <<>> THEN <<>> ELSE Head(ts) \o Flatten(Tail(ts))

\* pd.read_excel(upc_file) reads the first sheet; with sheet_name=None every sheet
\* is read and pd.concat(all_sheets.values(), ignore_index=True) puts them in order.
ReadSource(v, file) ==
    IF v = "auto" THEN Head(file.sheets) ELSE Flatten(file.sheets)

\* upc_df.columns = [col.lower().strip() for col in upc_df.columns]
RenameColumns(v, header) ==
    IF v \in Renaming THEN [k \in 1..Len(header) |-> LowerStrip(header[k])] ELSE header

RenameRow(v, header, row) ==
    LET columns == RenameColumns(v, header)
    IN  [c \in Range(columns) |->
            row[header[CHOOSE k \in 1..Len(header) : columns[k] = c]]]

LoadSource(v, file) ==
    LET rows == ReadSource(v, file)
    IN  [columns |-> RenameColumns(v, file.header),
         rows |-> [k \in 1..Len(rows) |-> RenameRow(v, file.header, rows[k])],
         STATUS |-> <<>>]

PipeIdle ==
    /\ variant = "multi"
    /\ pc = "idle"
    /\ upc_file = [header |-> <<>>, sheets |-> <<>>]
    /\ partner_file = NoFrame
    /\ upc_df = NoSourceFrame
    /\ partner_df = NoFrame
    /\ roles = NoRoles
    /\ new_upcs_df = <<>>
    /\ merged_df = NoFrame
    /\ download = NoFrame

Init ==
    /\ nst = NormIdle
    /\ dst = SizeIdle
    /\ cst = ColumnIdle
    /\ hst = HeaderIdle
    /\ variant \in Variants
    /\ pc = "uploaded"
    /\ upc_file \in UpcFiles
    /\ partner_file \in PartnerFiles
    /\ upc_df = NoSourceFrame
    /\ partner_df = NoFrame
    /\ roles = NoRoles
    /\ new_upcs_df = <<>>
    /\ merged_df = NoFrame
    /\ download = NoFrame

\* if upc_file and partner_file: the frames are read, the roles resolved (with the
\* selectbox choices of the user where the script asks), and the gate is passed or not.
MapColumns ==
    /\ pc = "uploaded"
    /\ LET df == LoadSource(variant, upc_file)
       IN  /\ upc_df' = df
           /\ \E pick_desc \in SelectboxValues(AsksDescription(variant, df.columns), df.columns),
                 pick_upc \in SelectboxValues(AsksBarcode(variant, df.columns), df.columns) :
                 roles' = ResolveRoles(variant, df.columns, pick_desc, pick_upc)
    /\ partner_df' = partner_file
    /\ pc' = IF RequiredMissing(roles') THEN "error" ELSE "ready"
    /\ UNCHANGED <<nst, dst, cst, hst, variant, upc_file, partner_file, new_upcs_df, merged_df,
                   download>>

\* if st.button(...): the whole handler, up to the output frame.  A KeyError (no
\* 'barcode' column in the catalog; no size fields when no record is New) ends the run.
MergeAndExtract ==
    /\ pc = "ready"
    /\ LET has_barcode == "barcode" \in Range(partner_df.columns)
           no_size_fields == variant # "auto" /\ new_upcs_df' = <<>>
       IN  /\ partner_df' =
                 IF has_barcode
                 THEN [partner_df EXCEPT !.rows = CleanCatalogColumn(variant, @)]
                 ELSE partner_df
           /\ upc_df' =
                 LET cleaned == CleanSourceColumn(variant, upc_df.rows, roles.upc_col)
                     existing_barcodes == ExistingBarcodes(partner_df'.rows)
                 IN  [upc_df EXCEPT
                         !.rows = cleaned,
                         !.STATUS = IF has_barcode
                                    THEN [k \in 1..Len(cleaned) |->
                                             Label(cleaned[k][roles.upc_col], existing_barcodes)]
                                    ELSE <<>>]
           /\ new_upcs_df' =
                 IF has_barcode
                 THEN DeriveNew(variant, roles, upc_df'.rows, NewPositions(upc_df'.STATUS, 1))
                 ELSE <<>>
           /\ IF ~has_barcode \/ no_size_fields
              THEN pc' = "crashed" /\ UNCHANGED merged_df
              ELSE /\ pc' = "merged"
                   /\ merged_df' =
                         Concat(partner_df',
                                [k \in 1..Len(new_upcs_df') |->
                                    Project(ConstructRow(variant, roles, new_upcs_df'[k]),
                                            partner_df.columns)])
    /\ UNCHANGED <<nst, dst, cst, hst, variant, upc_file, partner_file, roles, download>>

Next == MapColumns \/ MergeAndExtract

Spec == Init /\ [][Next]_vars

(***************************************************************************)
(* Normalizer specification: every raw barcode cell of RawCells is given   *)
(* to both normalizers of a variant, and an output is normalized again.    *)
(***************************************************************************)
TailChars == {"0", "7", ".", "A"}

RawCells ==
    {NaN, <<"A", "B", "C">>} \cup {p \o t : p \in {<<>>, Eleven, Thirteen}, t \in SeqsUpTo(TailChars, MaxTail)}

NormInit ==
    /\ nst \in [variant : Variants, cell : RawCells, pass : {0}, prev : {NaN},
                src : {NaN}, cat : {NaN}]
    /\ dst = SizeIdle
    /\ cst = ColumnIdle
    /\ hst = HeaderIdle
    /\ PipeIdle

\* One application of the two normalizers to the cell.
NormApply ==
    /\ nst.pass = 0 \/ (nst.pass = 1 /\ nst.src = NaN)
    /\ UNCHANGED <<dst, cst, hst, pipe>>
    /\ nst' = [nst EXCEPT !.pass = IF nst.pass = 0 THEN 1 ELSE 2,
                          !.src = CleanSource(nst.variant, nst.cell),
                          !.cat = CleanCatalog(nst.variant, nst.cell)]

\* An output of a normalizer becomes the cell of the next application.
NormFeedBack ==
    /\ UNCHANGED <<dst, cst, hst, pipe>>
    /\ nst.pass = 1
    /\ nst.src # NaN
    /\ \E out \in {nst.src, nst.cat} :
          nst' = [nst EXCEPT !.cell = out, !.prev = out, !.src = NaN, !.cat = NaN]

NormNext == NormApply \/ NormFeedBack

SpecNorm == NormInit /\ [][NormNext]_vars

(***************************************************************************)
(* Parser specification: every description of DescTexts is parsed once.    *)
(***************************************************************************)
Tokens ==
    { <<"1">>, <<".", "5">>, <<" ">>, <<"o", "z">>, <<"f", "l", " ", "o", "z">>, <<"l">>,
      <<"m", "l">>, <<"g", "a", "l">>, <<"g", "a", "l", "l", "o", "n">>, <<"c", "t">>,
      <<"x">>, <<"\t">>, <<"2", "O", "Z">>, <<"3", " ", "C", "t">> }

CocaCola ==
    <<"C", "o", "c", "a", "-", "C", "o", "l", "a", " ", "1", "2", " ", "o", "z">>

WaterBottles ==
    <<"W", "a", "t", "e", "r", " ", "B", "o", "t", "t", "l", "e", "s", " ",
      "2", "4", " ", "c", "t", " ", "1", "6", ".", "9", " ", "o", "z">>

DescTexts == {CocaCola, WaterBottles} \cup {Flatten(ts) : ts \in SeqsUpTo(Tokens, MaxTok)}

SizeInit ==
    /\ dst \in [desc : DescTexts, done : {FALSE}, parsed : {NoFields}]
    /\ nst = NormIdle
    /\ cst = ColumnIdle
    /\ hst = HeaderIdle
    /\ PipeIdle

SizeApply ==
    /\ ~dst.done
    /\ dst' = [dst EXCEPT !.done = TRUE, !.parsed = extract_size_components(dst.desc)]
    /\ UNCHANGED <<nst, cst, hst, pipe>>

SizeNext == SizeApply

SpecSize == SizeInit /\ [][SizeNext]_vars

(***************************************************************************)
(* Claims about the merge, under Spec.                                     *)
(***************************************************************************)
\* The button handler has labeled the source records.
Labeled ==
    /\ pc \in {"merged", "crashed"}
    /\ "barcode" \in Range(partner_file.columns)

\* The source frame as it was loaded, before the merge rewrote its barcode column.
RawSource == LoadSource(variant, upc_file).rows

NewCount == Cardinality({k \in 1..Len(upc_df.STATUS) : upc_df.STATUS[k] = "New"})

\* C1: a source record is labeled "Existing" exactly when its normalized barcode
\* equals the normalized barcode of some catalog row, and "New" in every other case.
C1_ExistingIffInCatalog ==
    Labeled =>
        /\ Len(upc_df.STATUS) = Len(RawSource)
        /\ \A k \in 1..Len(upc_df.STATUS) :
              LET in_catalog == \E j \in 1..Len(partner_df.rows) :
                                    upc_df.rows[k][roles.upc_col] = partner_df.rows[j]["barcode"]
              IN  upc_df.STATUS[k] = (IF in_catalog THEN "Existing" ELSE "New")

\* An Existing record matched by the last catalog row only, and a New one.
C1_Witness ==
    /\ pc = "merged"
    /\ variant = "multi"
    /\ upc_df.STATUS = <<"Existing", "New">>
    /\ Len(partner_df.rows) = 2
    /\ partner_df.rows[1]["barcode"] # upc_df.rows[1][roles.upc_col]

\* C2: the output has as many rows as the catalog plus one per source record labeled
\* "New", each occurrence of a repeated New record counted.
C2_RowCount ==
    (pc = "merged") => (Len(merged_df.rows) = Len(partner_file.rows) + NewCount)

\* Two catalog rows and the same New record twice.
C2_Witness ==
    /\ pc = "merged"
    /\ Len(partner_file.rows) = 2
    /\ upc_df.STATUS = <<"New", "New">>
    /\ upc_df.rows[1] = upc_df.rows[2]
    /\ Len(merged_df.rows) = 4

\* C3: the output's column sequence is the catalog's; every row has exactly the
\* catalog's columns, and a new row holds None under each catalog column that is not
\* a constructed field.
C3_ColumnOrder ==
    (pc = "merged") =>
        /\ merged_df.columns = partner_file.columns
        /\ \A k \in 1..Len(merged_df.rows) :
              /\ DOMAIN merged_df.rows[k] = Range(partner_file.columns)
              /\ k > Len(partner_file.rows) =>
                    \A c \in Range(partner_file.columns) \ ConstructedFields(variant) :
                        merged_df.rows[k][c] = None

\* A catalog with a column no new row has ("legacy") and without most constructed
\* fields, and a new row appended.
C3_Witness ==
    /\ pc = "merged"
    /\ partner_file.columns = <<"name", "barcode", "ch1Department", "sizeValue", "legacy">>
    /\ Len(merged_df.rows) > Len(partner_file.rows)
    /\ merged_df.rows[Len(merged_df.rows)]["legacy"] = None
    /\ merged_df.rows[Len(merged_df.rows)]["ch1Department"] # None

\* C4: the first rows of the output are the catalog's rows in their order with every
\* cell, the barcode cell included, as in the catalog input.
C4_CatalogRowsUnchanged ==
    (pc = "merged") =>
        /\ Len(merged_df.rows) >= Len(partner_file.rows)
        /\ \A j \in 1..Len(partner_file.rows) : merged_df.rows[j] = partner_file.rows[j]

\* C8: in every variant a source barcode cell "12345678905.0" is normalized to
\* "012345678905" and labeled "Existing" when the catalog holds "012345678905".
C8_TrailingDotZeroEveryVariant ==
    Labeled =>
        \A k \in 1..Len(upc_df.STATUS) :
            RawSource[k][roles.upc_col] = Eleven \o <<".", "0">> =>
                /\ upc_df.rows[k][roles.upc_col] = Twelve
                /\ (\E j \in 1..Len(partner_file.rows) :
                       partner_file.rows[j]["barcode"] = Twelve)
                   => upc_df.STATUS[k] = "Existing"

\* The positions of the delimiter in s, and the m-th of them counted from 1; position
\* 0 stands before the text and Len(s) + 1 after it.
Delims(s) == {k \in 1..Len(s) : s[k] = ">"}

NthDelim(s, m) ==
    IF m = 0 THEN 0
    ELSE IF m > Cardinality(Delims(s)) THEN Len(s) + 1
    ELSE CHOOSE d \in Delims(s) : Cardinality({x \in Delims(s) : x < d}) = m - 1

SegmentCount(s) == Cardinality(Delims(s)) + 1

\* The segment at position m (from 0) of s: the text between two neighbouring delimiters.
Segment(s, m) == SubSeq(s, NthDelim(s, m) + 1, NthDelim(s, m + 1) - 1)

\* t is s without the whitespace at its two ends.
Trimmed(s, t) ==
    \E i \in 1..(Len(s) + 1), j \in 0..Len(s) :
        /\ t = SubSeq(s, i, j)
        /\ \A k \in 1..(i - 1) : s[k] \in Whitespace
        /\ \A k \in (j + 1)..Len(s) : s[k] \in Whitespace
        /\ (t # <<>> => (t[1] \notin Whitespace /\ t[Len(t)] \notin Whitespace))

\* level is what the claim gives for position m of the product type text.
LevelOf(text, m, level) ==
    IF m < SegmentCount(text) THEN Trimmed(Segment(text, m), level) ELSE level = NA

\* C10: for a New record with a product type text, department, category and segment
\* are the trimmed segments at positions 0, 1, 2 of the text split on ">", "N/A" at a
\* position the record has no segment for, whatever the other records of the batch
\* hold; "Beverages > Soda > Cola" gives Beverages / Soda / Cola, "Snacks" gives
\* Snacks / N/A / N/A.
C10_CategoryLevels ==
    (Labeled /\ roles.product_type_col # NoColumn) =>
        \A k \in 1..Len(new_upcs_df) :
            LET n == new_upcs_df[k]
                text == n.row[roles.product_type_col]
            IN  text # NaN =>
                    /\ LevelOf(text, 0, n.ch1Department)
                    /\ LevelOf(text, 1, n.ch2Category)
                    /\ LevelOf(text, 2, n.ch3Segment)
                    /\ (text = Beverages =>
                           /\ n.ch1Department = SubSeq(Beverages, 1, 9)
                           /\ n.ch2Category = <<"S", "o", "d", "a">>
                           /\ n.ch3Segment = <<"C", "o", "l", "a">>)
                    /\ (text = Snacks =>
                           /\ n.ch1Department = Snacks
                           /\ n.ch2Category = NA
                           /\ n.ch3Segment = NA)

\* "Snacks" in a batch with a record of three segments.
C10_Witness ==
    /\ pc = "merged"
    /\ variant = "flex"
    /\ Len(new_upcs_df) = 2
    /\ new_upcs_df[1].row[roles.product_type_col] = Beverages
    /\ new_upcs_df[2].row[roles.product_type_col] = Snacks
    /\ new_upcs_df[2].ch2Category = NA
    /\ new_upcs_df[1].ch3Segment = <<"C", "o", "l", "a">>

(***************************************************************************)
(* Claims about the normalizer, under SpecNorm.                            *)
(***************************************************************************)
Extracting == Variants \ {"auto"}

NormApplied == nst.pass = 1 /\ nst.src # NaN

AllDigits(s) == \A k \in 1..Len(s) : s[k] \in Digits

\* t is the text s with one trailing ".0" removed, when it has one.
WithoutTrailingDotZero(s, t) ==
    \/ s = t \o <<".", "0">>
    \/ (t = s /\ ~\E u \in {SubSeq(s, 1, k) : k \in 0..Len(s)} : s = u \o <<".", "0">>)

\* t[i..j] is the first maximal run of digits of t.
FirstMaximalRun(t, i, j) ==
    /\ 1 <= i /\ i <= j /\ j <= Len(t)
    /\ \A k \in i..j : t[k] \in Digits
    /\ \A k \in 1..(i - 1) : t[k] \notin Digits
    /\ (j = Len(t) \/ t[j + 1] \notin Digits)

\* out is run with "0" on its left up to 12 characters, nothing of run cut.
PaddedTo12(run, out) ==
    /\ Len(out) = (IF Len(run) > 12 THEN Len(run) ELSE 12)
    /\ SubSeq(out, Len(out) - Len(run) + 1, Len(out)) = run
    /\ \A k \in 1..(Len(out) - Len(run)) : out[k] = "0"

\* C5: in the variants that clean the UPC column by digit extraction, the normalized
\* source barcode has at least 12 characters, all of them digits, and is the first
\* maximal digit run of the text without one trailing ".0" (the empty text when it
\* has no digit), left-padded with "0" to 12 and never cut; "ABC" gives twelve zeros.
C5_NormalizedForm ==
    (NormApplied /\ nst.variant \in Extracting) =>
        LET s == AsStr(nst.cell)
            out == nst.src
        IN  /\ Len(out) >= 12
            /\ AllDigits(out)
            /\ \E t \in {SubSeq(s, 1, k) : k \in 0..Len(s)} :
                  /\ WithoutTrailingDotZero(s, t)
                  /\ IF \E k \in 1..Len(t) : t[k] \in Digits
                     THEN \E i, j \in 1..Len(t) :
                             FirstMaximalRun(t, i, j) /\ PaddedTo12(SubSeq(t, i, j), out)
                     ELSE PaddedTo12(<<>>, out)
            /\ (nst.cell = <<"A", "B", "C">> => out = [k \in 1..12 |-> "0"])

C5_Witness ==
    /\ NormApplied
    /\ nst.variant = "multi"
    /\ nst.cell = Eleven \o <<".", "0">>
    /\ nst.src = <<"0">> \o Eleven

\* C6: a normalizer (source side or catalog side) applied to an output of a normalizer
\* of the same variant returns that output.
C6_Idempotent ==
    (nst.pass = 2) => (nst.src = nst.prev /\ nst.cat = nst.prev)

C6_Witness ==
    /\ nst.pass = 2
    /\ nst.variant = "flex"
    /\ nst.prev = <<"0", "0", "0", "0", "0", "0", "0", "0", "0", "0", "7", "0">>
    /\ nst.src = nst.prev

\* C7: in every variant the normalization of the source barcode column and that of
\* the catalog barcode column give the same text for the same raw cell.
C7_SameFunction ==
    (nst.src # NaN) => (nst.src = nst.cat)

\* The cell where the two pipelines take different paths: the source side strips
\* ".0" and finds no digit, the catalog side extracts the "0" after the dot.
C7_Witness ==
    /\ NormApplied
    /\ nst.variant = "dynamic"
    /\ nst.cell = <<"A", ".", "0">>
    /\ nst.src = [k \in 1..12 |-> "0"]
    /\ nst.cat = nst.src

(***************************************************************************)
(* Claims about the description parser, under SpecSize.                    *)
(***************************************************************************)
\* t is a number, optionally decimal: digits, or digits "." digits.
IsNumber(t) ==
    \/ (Len(t) >= 1 /\ AllDigits(t))
    \/ \E p \in 2..(Len(t) - 1) :
          /\ t[p] = "."
          /\ AllDigits(SubSeq(t, 1, p - 1))
          /\ AllDigits(SubSeq(t, p + 1, Len(t)))

\* unit stands right after position e of s, or after one whitespace character.
FollowedBy(s, e, unit) ==
    \/ HasAt(s, e + 1, unit)
    \/ (e + 1 <= Len(s) /\ s[e + 1] \in Whitespace /\ HasAt(s, e + 2, unit))

\* The canonical measure of each unit token.
UnitTable ==
    { << <<"o", "z">>, <<"O", "Z">> >>,
      << <<"f", "l", " ", "o", "z">>, <<"O", "Z">> >>,
      << <<"l">>, <<"L">> >>,
      << <<"m", "l">>, <<"M", "L">> >>,
      << <<"g", "a", "l", "l", "o", "n">>, <<"G", "A", "L", "L", "O", "N">> >>,
      << <<"g", "a", "l">>, <<"G", "A", "L", "L", "O", "N">> >> }

\* The spans <<i, e>> of s that read as a number.
NumberSpans(s) ==
    {p \in (1..Len(s)) \X (1..Len(s)) : p[1] <= p[2] /\ IsNumber(SubSeq(s, p[1], p[2]))}

\* The occurrences <<i, e, measure>> of number, optional space, unit in s.
SizeOccurrences(s) ==
    UNION {{<<p[1], p[2], ut[2]>> : ut \in {x \in UnitTable : FollowedBy(s, p[2], x[1])}} :
           p \in NumberSpans(s)}

CountOccurrences(s) ==
    {o \in (1..Len(s)) \X (1..Len(s)) :
        /\ o[1] <= o[2]
        /\ AllDigits(SubSeq(s, o[1], o[2]))
        /\ FollowedBy(s, o[2], <<"c", "t">>)}

Leftmost(occ) == {o \in occ : \A q \in occ : o[1] <= q[1]}

\* C9: sizeValue and sizeMeasure come from the leftmost occurrence, in the lowercased
\* description, of a number (optionally decimal), an optional whitespace character and
\* a unit, the unit canonicalized; itemCountValue comes from the leftmost number followed
\* by an optional whitespace character and "ct", and itemCountMeasure is "CT" exactly
\* then; a field with no occurrence is None.  The two descriptions of the scenarios
\* give 12 / OZ / no count, and 16.9 / OZ / 24 / CT.
C9_SizeAndCount ==
    dst.done =>
        LET s == Lower(dst.desc)
            so == SizeOccurrences(s)
            co == CountOccurrences(s)
            r == dst.parsed
        IN  /\ IF so = {}
               THEN r.sizeValue = None /\ r.sizeMeasure = None
               ELSE \A o \in Leftmost(so) :
                       r.sizeValue = SubSeq(s, o[1], o[2]) /\ r.sizeMeasure = o[3]
            /\ IF co = {}
               THEN r.itemCountValue = None
               ELSE \A o \in Leftmost(co) : r.itemCountValue = SubSeq(s, o[1], o[2])
            /\ (r.itemCountMeasure = <<"C", "T">>) = (co # {})
            /\ (r.itemCountMeasure = None) = (co = {})
            /\ (dst.desc = WaterBottles =>
                   r = [sizeValue |-> <<"1", "6", ".", "9">>, sizeMeasure |-> <<"O", "Z">>,
                        itemCountValue |-> <<"2", "4">>, itemCountMeasure |-> <<"C", "T">>])
            /\ (dst.desc = CocaCola =>
                   r = [sizeValue |-> <<"1", "2">>, sizeMeasure |-> <<"O", "Z">>,
                        itemCountValue |-> None, itemCountMeasure |-> None])

\* A count before a size, and a later size occurrence that is not taken.
C9_Witness ==
    /\ dst.done
    /\ dst.desc = <<"3", " ", "C", "t", "2", "O", "Z", "2", "O", "Z">>
    /\ dst.parsed = [sizeValue |-> <<"2">>, sizeMeasure |-> <<"O", "Z">>,
                     itemCountValue |-> <<"3">>, itemCountMeasure |-> <<"C", "T">>]

(***************************************************************************)
(* Claims about absent categories, under Spec.                             *)
(***************************************************************************)
\* C11: a New record whose category source is absent (the scripts that split the
\* product type: no product-type column, or an empty cell under it) has department,
\* category and segment all "N/A".
C11_AbsentCategoryAllNA ==
    (Labeled /\ variant \in Renaming) =>
        \A k \in 1..Len(new_upcs_df) :
            LET n == new_upcs_df[k]
            IN  (roles.product_type_col = NoColumn \/ n.row[roles.product_type_col] = NaN) =>
                    /\ n.ch1Department = NA
                    /\ n.ch2Category = NA
                    /\ n.ch3Segment = NA

(***************************************************************************)
(* Column detector specification: detect_column is applied once to every   *)
(* column list of ColumnLists with every alias list of the scripts.        *)
(***************************************************************************)
MaxCols == 3

\* Header cells as pandas holds them: distinct names, several of which lowercase and
\* strip to the same name.
ColumnNames == {"UPC", "upc", "Barcode ", "barcode", "Description", "name", "Brand", "sku"}

ColumnLists ==
    {cs \in SeqsUpTo(ColumnNames, MaxCols) :
        \A i, j \in 1..Len(cs) : i # j => cs[i] # cs[j]}

AliasLists ==
    {UPC_ALIASES, DESC_ALIASES, BRAND_ALIASES, CAT1_ALIASES, CAT2_ALIASES, CAT3_ALIASES}

ColumnInit ==
    /\ cst \in [columns : ColumnLists, aliases : AliasLists, done : {FALSE},
                found : {NoColumn}]
    /\ nst = NormIdle
    /\ dst = SizeIdle
    /\ hst = HeaderIdle
    /\ PipeIdle

ColumnApply ==
    /\ ~cst.done
    /\ cst' = [cst EXCEPT !.done = TRUE, !.found = detect_column(cst.columns, cst.aliases)]
    /\ UNCHANGED <<nst, dst, hst, pipe>>

ColumnNext == ColumnApply

SpecColumn == ColumnInit /\ [][ColumnNext]_vars

(***************************************************************************)
(* Claims about detect_column, under SpecColumn.                           *)
(***************************************************************************)
\* The positions of the columns whose lowercased, stripped name is a.
Named(columns, a) == {k \in 1..Len(columns) : LowerStrip(columns[k]) = a}

\* The positions of the aliases that name some column.
Matching(columns, aliases) == {j \in 1..Len(aliases) : Named(columns, aliases[j]) # {}}

\* C12: detect_column returns the first column, in column order, whose lowercased and
\* stripped name is the earliest alias that names a column at all, also when several
\* columns have that name; None when no alias names a column.
C12_FirstColumnOfEarliestAlias ==
    cst.done =>
        LET matching == Matching(cst.columns, cst.aliases)
        IN  IF matching = {} THEN cst.found = NoColumn
            ELSE \E j \in matching :
                    /\ \A i \in matching : j <= i
                    /\ \E k \in Named(cst.columns, cst.aliases[j]) :
                          /\ \A m \in Named(cst.columns, cst.aliases[j]) : k <= m
                          /\ cst.found = cst.columns[k]

(***************************************************************************)
(* Header row detector: detect_header_row, and its specification, where    *)
(* it is applied once to every raw sheet of RawSheets.                     *)
(***************************************************************************)
MaxRows == 6

\* range(min(5, len(df_raw)))
HeaderWindow == 5

\* ['title', 'description', 'gtin', 'upc', 'barcode']
HeaderKeywords ==
    { <<"t", "i", "t", "l", "e">>,
      <<"d", "e", "s", "c", "r", "i", "p", "t", "i", "o", "n">>,
      <<"g", "t", "i", "n">>,
      <<"u", "p", "c">>,
      <<"b", "a", "r", "c", "o", "d", "e">> }

\* df_raw.iloc[i].astype(str).str.lower().str.strip()
RowText(row) == [k \in 1..Len(row) |-> Strip(Lower(AsStr(row[k])))]

\* The loop from row i (counted from 0) over the first n rows; 0 when it runs out.
RECURSIVE HeaderScan(_, _, _)
HeaderScan(df_raw, i, n) ==
    IF i >= n THEN 0
    ELSE IF \E col \in HeaderKeywords : col \in Range(RowText(df_raw[i + 1])) THEN i
    ELSE HeaderScan(df_raw, i + 1, n)

\* The loop over every row of the sheet.
detect_header_row_all(df_raw) == HeaderScan(df_raw, 0, Len(df_raw))

detect_header_row(df_raw) == HeaderScan(df_raw, 0, Min({HeaderWindow, Len(df_raw)}))

\* Rows of a sheet read with header=None: data, near misses (a keyword inside a longer
\* cell), and header rows with keywords in other case and with whitespace around them.
RawRows ==
    { << <<"1", "2">>, NaN >>,
      << <<"u", "p", "c", "s">>, <<"U", "P", "C", " ", "c", "o", "d", "e">> >>,
      << <<"T", "i", "t", "l", "e">>, <<"d", "e", "s", "c", "r", "i", "p", "t", "i", "o", "n">> >>,
      << NaN, <<" ", "G", "T", "I", "N", "\t">> >>,
      << <<"U", "P", "C">>, <<"b", "a", "r", "c", "o", "d", "e">> >> }

RawSheets == SeqsUpTo(RawRows, MaxRows)

HeaderInit ==
    /\ hst \in [df_raw : RawSheets, done : {FALSE}, header_row : {0}]
    /\ nst = NormIdle
    /\ dst = SizeIdle
    /\ cst = ColumnIdle
    /\ PipeIdle

HeaderApply ==
    /\ ~hst.done
    /\ hst' = [hst EXCEPT !.done = TRUE, !.header_row = detect_header_row(hst.df_raw)]
    /\ UNCHANGED <<nst, dst, cst, pipe>>

HeaderNext == HeaderApply

SpecHeader == HeaderInit /\ [][HeaderNext]_vars

(***************************************************************************)
(* Claims about detect_header_row, under SpecHeader.                       *)
(***************************************************************************)
HeaderTokens ==
    { <<"t", "i", "t", "l", "e">>,
      <<"d", "e", "s", "c", "r", "i", "p", "t", "i", "o", "n">>,
      <<"g", "t", "i", "n">>,
      <<"u", "p", "c">>,
      <<"b", "a", "r", "c", "o", "d", "e">> }

\* Row i (from 0) of the sheet has a cell whose lowercased, trimmed text is a token.
HasToken(df_raw, i) ==
    \E c \in 1..Len(df_raw[i + 1]) :
        \E t \in HeaderTokens : Trimmed(Lower(AsStr(df_raw[i + 1][c])), t)

\* C13: detect_header_row returns the smallest index i < min(5, number of rows) whose
\* row has a cell that lowercased and trimmed is one of "title", "description", "gtin",
\* "upc", "barcode"; 0 when the first 5 rows hold no such row (an empty sheet
\* included); never an index of 5 or more.
C13_HeaderRow ==
    hst.done =>
        LET n == IF Len(hst.df_raw) < 5 THEN Len(hst.df_raw) ELSE 5
            i == hst.header_row
        IN  /\ i \in 0..4
            /\ IF \E j \in 0..(n - 1) : HasToken(hst.df_raw, j)
               THEN /\ i < n
                    /\ HasToken(hst.df_raw, i)
                    /\ \A j \in 0..(i - 1) : ~HasToken(hst.df_raw, j)
               ELSE i = 0

\* The padded upper-case "GTIN" in the fourth row after data and near misses; a header
\* row also in the sixth.
C13_Witness ==
    /\ hst.done
    /\ Len(hst.df_raw) = 6
    /\ hst.df_raw[1] = << <<"1", "2">>, NaN >>
    /\ hst.df_raw[2] = << <<"u", "p", "c", "s">>, <<"U", "P", "C", " ", "c", "o", "d", "e">> >>
    /\ hst.df_raw[3] = hst.df_raw[1]
    /\ hst.df_raw[4] = << NaN, <<" ", "G", "T", "I", "N", "\t">> >>
    /\ hst.df_raw[6] = << <<"U", "P", "C">>, <<"b", "a", "r", "c", "o", "d", "e">> >>
    /\ hst.header_row = 3

(***************************************************************************)
(* Claims about the required-column gate, under Spec.                      *)
(***************************************************************************)
\* Both required roles name a column of the source frame.
RequiredResolved ==
    /\ roles.upc_col \in Range(upc_df.columns)
    /\ roles.desc_col \in Range(upc_df.columns)

\* C14: a run whose barcode or description role is resolved neither by the automatic
\* mapping nor by a selected column is in the error state, which it never leaves, with
\* nothing merged and no output; the merge runs only from a state where both roles
\* name a column of the source.
C14_RequiredColumnGate ==
    /\ [](pc # "uploaded" =>
            /\ RequiredMissing(roles) => pc = "error"
            /\ pc = "error" =>
                  /\ RequiredMissing(roles)
                  /\ merged_df = NoFrame
                  /\ new_upcs_df = <<>>
                  /\ upc_df.STATUS = <<>>
                  /\ partner_df = partner_file
            /\ pc \in {"ready", "merged", "crashed"} => RequiredResolved)
    /\ [][/\ pc # "error"
          /\ pc' \in {"merged", "crashed"} => (pc = "ready" /\ RequiredResolved)]_vars

\* A run stopped at the gate with the description resolved and the barcode not.
C14_Witness ==
    /\ pc = "error"
    /\ variant = "manual"
    /\ roles.upc_col = NoColumn
    /\ roles.desc_col = "description"
    /\ merged_df = NoFrame

(***************************************************************************)
(* Claims about the appended rows, under Spec.                             *)
(***************************************************************************)
\* The positions of the source records labeled "New", and the j-th of them.
NewLabeled == {k \in 1..Len(upc_df.STATUS) : upc_df.STATUS[k] = "New"}

NthNew(j) == CHOOSE k \in NewLabeled : Cardinality({i \in NewLabeled : i < k}) = j - 1

\* The j-th row of the output after the catalog's rows.
Appended(j) == merged_df.rows[Len(partner_file.rows) + j]

\* The number of rows in the sheets before sheet s of the source workbook.
RECURSIVE RowsBefore(_)
RowsBefore(s) == IF s = 1 THEN 0 ELSE RowsBefore(s - 1) + Len(upc_file.sheets[s - 1])

\* The header cell of the workbook that became column c of the source frame.
HeaderOf(c) == upc_file.header[CHOOSE k \in 1..Len(upc_df.columns) : upc_df.columns[k] = c]

\* C15: the rows appended to the output are the source records labeled "New", one row
\* per record in the order of the source, which is the sheets of the workbook one after
\* the other; a New barcode is appended as many times as it occurs in the source.
C15_NewRowsInSourceOrder ==
    (pc = "merged") =>
        /\ Len(merged_df.rows) = Len(partner_file.rows) + Cardinality(NewLabeled)
        /\ \A j \in 1..Cardinality(NewLabeled) :
              /\ Appended(j)["barcode"] = upc_df.rows[NthNew(j)][roles.upc_col]
              /\ Appended(j)["name"] = upc_df.rows[NthNew(j)][roles.desc_col]
        /\ \A k \in NewLabeled :
              LET b == upc_df.rows[k][roles.upc_col]
              IN  Cardinality({j \in 1..Cardinality(NewLabeled) : Appended(j)["barcode"] = b})
                    = Cardinality({i \in NewLabeled : upc_df.rows[i][roles.upc_col] = b})
        /\ variant # "auto" =>
              /\ Len(upc_df.rows) = RowsBefore(Len(upc_file.sheets) + 1)
              /\ \A s \in 1..Len(upc_file.sheets) :
                    \A r \in 1..Len(upc_file.sheets[s]) :
                        \A c \in Range(upc_df.columns) \ {roles.upc_col} :
                            upc_df.rows[RowsBefore(s) + r][c] = upc_file.sheets[s][r][HeaderOf(c)]

\* Two different New records from two sheets, appended in the order of the sheets.
C15_Witness ==
    /\ pc = "merged"
    /\ variant = "multi"
    /\ Len(upc_file.sheets) = 2
    /\ upc_df.STATUS = <<"New", "New">>
    /\ upc_df.rows[1][roles.upc_col] # upc_df.rows[2][roles.upc_col]
    /\ Appended(1)["barcode"] = upc_df.rows[1][roles.upc_col]
    /\ Appended(2)["name"] = upc_file.sheets[2][1][HeaderOf(roles.desc_col)]

(***************************************************************************)
(* Rerun specification: the output of a run is saved and uploaded as the   *)
(* catalog of a second run on the same source.                             *)
(***************************************************************************)
\* The texts pd.read_excel takes for an empty cell (its default na_values) among the
\* cells of the model; an empty cell and None are written as empty cells.
ReadAsEmpty == {NaN, None, NA, <<>>, <<"n", "a", "n">>}

\* merged_df.to_excel(output, index=False) read back by pd.read_excel(partner_file).
ReadBackCell(cell) == IF cell \in ReadAsEmpty THEN NaN ELSE cell

ReadBack(df) ==
    [columns |-> df.columns,
     rows |-> [k \in 1..Len(df.rows) |->
                  [c \in DOMAIN df.rows[k] |-> ReadBackCell(df.rows[k][c])]]]

\* The user downloads the merged file and uploads it as the partner file, with the
\* same source file: the script runs again from its top.
UploadOutput ==
    /\ pc = "merged"
    /\ download = NoFrame
    /\ download' = merged_df
    /\ partner_file' = ReadBack(merged_df)
    /\ pc' = "uploaded"
    /\ upc_df' = NoSourceFrame
    /\ partner_df' = NoFrame
    /\ roles' = NoRoles
    /\ new_upcs_df' = <<>>
    /\ merged_df' = NoFrame
    /\ UNCHANGED <<nst, dst, cst, hst, variant, upc_file>>

RerunNext == MapColumns \/ MergeAndExtract \/ UploadOutput

SpecRerun == Init /\ [][RerunNext]_vars

(***************************************************************************)
(* Claims about a second run, under SpecRerun.                             *)
(***************************************************************************)
\* The button handler of the second run has run.
SecondRunDone == download # NoFrame /\ pc \in {"merged", "crashed"}

\* C16: the second run, on the same source with the first run's output as the catalog,
\* labels every source record "Existing", appends no row and gives an output with the
\* rows of the first output.
C16_SecondRunSameRows ==
    SecondRunDone =>
        /\ \A k \in 1..Len(upc_df.STATUS) : upc_df.STATUS[k] = "Existing"
        /\ pc = "merged"
        /\ Len(merged_df.rows) = Len(download.rows)
        /\ ReadBack(merged_df).rows = ReadBack(download).rows

====
